---- MODULE Spec2Model ----
(***************************************************************************)
(* State-machine model of the SeaSafe rule-based collision-avoidance       *)
(* engine (ship.py, colreg.py, simulator.py).                              *)
(*                                                                         *)
(* The program computes with floats; the model computes in fixed point:    *)
(*   positions            1/PosScale nautical miles (0.01 NM)              *)
(*   closest-approach     1/(PosScale*10) nautical miles (0.001 NM)        *)
(*   angles               1/AngleScale degrees (0.00001 degree)            *)
(*   speeds               knots, velocity components 1/VelScale knots      *)
(*   times                seconds                                          *)
(* cos and sin are read from a table of whole degrees scaled by TrigScale. *)
(***************************************************************************)
EXTENDS Integers, Sequences, FiniteSets, TLC

PosScale == 100
AngleScale == 100000
TrigScale == 100000
VelScale == 20

\* F applied to the value of v: v is evaluated once, however often F uses it
Bind(v, F(_)) == CHOOSE r \in {F(x) : x \in {v}} : TRUE

Abs(a) == Bind(a, LAMBDA x : IF x < 0 THEN -x ELSE x)

\* a / b rounded to the nearest integer (b > 0), halves upwards
RoundDiv(a, b) == (2 * a + b) \div (2 * b)

\* r or r + 1, whichever is the floor of the square root of n
ISqrtStep(n, r) == IF (r + 1) * (r + 1) <= n THEN r + 1 ELSE r

RECURSIVE ISqrt(_)
\* floor of the square root
ISqrt(n) ==
    Bind(n, LAMBDA m : IF m < 2 THEN m
                       ELSE Bind(2 * ISqrt(m \div 4), LAMBDA r : ISqrtStep(m, r)))

\* math.cos of 0..90 whole degrees, times TrigScale
CosTable ==
    << 100000, 99985, 99939, 99863, 99756, 99619, 99452, 99255, 99027, 98769,
       98481, 98163, 97815, 97437, 97030, 96593, 96126, 95630, 95106, 94552,
       93969, 93358, 92718, 92050, 91355, 90631, 89879, 89101, 88295, 87462,
       86603, 85717, 84805, 83867, 82904, 81915, 80902, 79864, 78801, 77715,
       76604, 75471, 74314, 73135, 71934, 70711, 69466, 68200, 66913, 65606,
       64279, 62932, 61566, 60182, 58779, 57358, 55919, 54464, 52992, 51504,
       50000, 48481, 46947, 45399, 43837, 42262, 40674, 39073, 37461, 35837,
       34202, 32557, 30902, 29237, 27564, 25882, 24192, 22495, 20791, 19081,
       17365, 15643, 13917, 12187, 10453, 8716, 6976, 5234, 3490, 1745,
       0 >>

\* whole degrees of an angle given in 1/AngleScale degrees
Deg(h) == RoundDiv(h, AngleScale)

\* math.cos(math.radians(d)) for a whole number of degrees d, times TrigScale
CosDeg(d) ==
    LET m == d % 360
    IN  IF m <= 90 THEN CosTable[m + 1]
        ELSE IF m <= 180 THEN -CosTable[180 - m + 1]
        ELSE IF m <= 270 THEN -CosTable[m - 180 + 1]
        ELSE CosTable[360 - m + 1]

SinDeg(d) == CosDeg(d - 90)

\* the projection of (ax, ay) on the direction of a whole degrees, 0 <= a <= 90
Proj(ax, ay, a) == ax * CosTable[a + 1] + ay * CosTable[90 - a + 1]

RECURSIVE AtanSearch(_, _, _, _)
\* the least a in lo..hi after which the projection no longer grows: the
\* direction of lo..hi nearest to that of (ax, ay)
AtanSearch(ax, ay, lo, hi) ==
    IF lo >= hi THEN lo
    ELSE Bind((lo + hi) \div 2,
              LAMBDA mid : IF Proj(ax, ay, mid + 1) > Proj(ax, ay, mid)
                           THEN AtanSearch(ax, ay, mid + 1, hi)
                           ELSE AtanSearch(ax, ay, lo, mid))

\* the angle of the first quadrant placed in the quadrant of (dx, dy)
Quadrant(dy, dx, a) ==
    IF dx >= 0 /\ dy >= 0 THEN a
    ELSE IF dx < 0 /\ dy >= 0 THEN 180 - a
    ELSE IF dx < 0 THEN a - 180
    ELSE -a

\* math.degrees(math.atan2(dy, dx)) to the nearest whole degree, in (-180, 180]
Atan2Deg(dy, dx) ==
    Bind(<<dy, dx>>,
         LAMBDA d : IF d[2] = 0 /\ d[1] = 0 THEN 0
                    ELSE Bind(AtanSearch(Abs(d[2]), Abs(d[1]), 0, 90),
                              LAMBDA a : Quadrant(d[1], d[2], a)))

(***************************************************************************)
(* ship.py                                                                 *)
(***************************************************************************)
NoTime == -1   \* arrival_time = None

\* Ship.compute_heading_to_destination
compute_heading_to_destination(s) ==
    LET dx == s.dest_x - s.x
        dy == s.dest_y - s.y
    IN  IF dx = 0 /\ dy = 0 THEN s.heading
        ELSE Atan2Deg(dy, dx) * AngleScale

\* Ship.__init__ (position other than the destination)
NewShip(x, y, speed, dest_x, dest_y) ==
    [x |-> x, y |-> y, speed |-> speed, dest_x |-> dest_x, dest_y |-> dest_y,
     arrival_time |-> NoTime,
     heading |-> Atan2Deg(dest_y - y, dest_x - x) * AngleScale,
     heading_adjusted |-> 0]

\* Ship.__init__ raises AttributeError: it calls compute_heading_to_destination
\* before self.heading exists, and for a position equal to the destination
\* that method returns self.heading
init_raises(x, y, dest_x, dest_y) == dest_x - x = 0 /\ dest_y - y = 0

\* a reset that also points the vessel at its destination
reset_and_aim(s) ==
    [s EXCEPT !.heading_adjusted = 0, !.heading = compute_heading_to_destination(s)]

\* Ship.reset_heading_adjusted
reset_heading_adjusted(s) == [s EXCEPT !.heading_adjusted = 0]

\* a move along the heading to the destination instead of the current heading
update_position_to_destination(s, dt) ==
    Bind(compute_heading_to_destination(s),
         LAMBDA hd :
             [s EXCEPT !.x = @ + RoundDiv(s.speed * dt * CosDeg(Deg(hd)),
                                          3600 * (TrigScale \div PosScale)),
                       !.y = @ + RoundDiv(s.speed * dt * SinDeg(Deg(hd)),
                                          3600 * (TrigScale \div PosScale))])

\* Ship.update_position: dt in seconds, distance_nm = speed * dt / 3600,
\* moved along (cos, sin) of the heading
update_position(s, dt) ==
    LET q == 3600 * (TrigScale \div PosScale)
    IN  [s EXCEPT !.x = @ + RoundDiv(s.speed * dt * CosDeg(Deg(s.heading)), q),
                  !.y = @ + RoundDiv(s.speed * dt * SinDeg(Deg(s.heading)), q)]

\* Ship.distance_to_destination, squared (1/PosScale NM, squared)
distance_to_destination_sq(s) ==
    (s.dest_x - s.x) * (s.dest_x - s.x) + (s.dest_y - s.y) * (s.dest_y - s.y)

\* Ship.get_position_vector
get_position_vector(s) == <<s.x, s.y>>

\* Ship.get_velocity_vector, in 1/VelScale knots
get_velocity_vector(s) ==
    << RoundDiv(s.speed * CosDeg(Deg(s.heading)), TrigScale \div VelScale),
       RoundDiv(s.speed * SinDeg(Deg(s.heading)), TrigScale \div VelScale) >>

(***************************************************************************)
(* colreg.py                                                               *)
(***************************************************************************)
Dot(a, b) == a[1] * b[1] + a[2] * b[2]
Cross(a, b) == a[1] * b[2] - a[2] * b[1]
Minus(a, b) == <<a[1] - b[1], a[2] - b[2]>>

\* np.linalg.norm of a vector of positions, in 1/(10*PosScale) NM
NormMilli(r) == ISqrt(Dot(r, r) * 100)

\* the closest approach without the clamp of a negative time
cpa_at_unclamped(r0, v_rel, denom, num) ==
    IF denom = 0 THEN [dist_cpa |-> NormMilli(r0), t_cpa |-> 0]
    ELSE [dist_cpa |-> (Abs(Cross(r0, v_rel)) * 100) \div ISqrt(denom * 100),
          t_cpa |-> (num * ((3600 * VelScale) \div PosScale)) \div denom]

\* vessels without relative velocity reported as never meeting
cpa_at_parallel_far(r0, v_rel, denom, num) ==
    IF denom = 0 THEN [dist_cpa |-> 2000000000, t_cpa |-> 0]
    ELSE IF num <= 0 THEN [dist_cpa |-> NormMilli(r0), t_cpa |-> 0]
    ELSE [dist_cpa |-> (Abs(Cross(r0, v_rel)) * 100) \div ISqrt(denom * 100),
          t_cpa |-> (num * ((3600 * VelScale) \div PosScale)) \div denom]

\* compute_cpa_and_tcpa: [dist_cpa in 0.001 NM, t_cpa in seconds].
\* norm(r0 + v_rel * t) at t = -dot(r0, v_rel) / denom is |r0 x v_rel| / |v_rel|
cpa_at(r0, v_rel, denom, num) ==
    IF denom = 0 THEN [dist_cpa |-> NormMilli(r0), t_cpa |-> 0]
    ELSE IF num <= 0 THEN [dist_cpa |-> NormMilli(r0), t_cpa |-> 0]
    ELSE [dist_cpa |-> (Abs(Cross(r0, v_rel)) * 100) \div ISqrt(denom * 100),
          t_cpa |-> (num * ((3600 * VelScale) \div PosScale)) \div denom]

\* r0 = pB - pA, v_rel = vB - vA, denom = dot(v_rel, v_rel), the numerator
\* -dot(r0, v_rel) of t_cpa
compute_cpa_and_tcpa(shipA, shipB) ==
    Bind(<<Minus(get_position_vector(shipB), get_position_vector(shipA)),
           Minus(get_velocity_vector(shipB), get_velocity_vector(shipA))>>,
         LAMBDA rv : cpa_at(rv[1], rv[2], Dot(rv[2], rv[2]), -Dot(rv[1], rv[2])))

RECURSIVE NormalizeDown(_)
\* while rel > 180: rel -= 360
NormalizeDown(rel) ==
    IF rel > 180 * AngleScale THEN NormalizeDown(rel - 360 * AngleScale) ELSE rel

RECURSIVE NormalizeUpStrict(_)
\* while rel < -180: rel += 360
NormalizeUpStrict(rel) ==
    IF rel < -180 * AngleScale THEN NormalizeUpStrict(rel + 360 * AngleScale) ELSE rel

RECURSIVE NormalizeUp(_)
\* while rel <= -180: rel += 360
NormalizeUp(rel) ==
    IF rel <= -180 * AngleScale THEN NormalizeUp(rel + 360 * AngleScale) ELSE rel

\* relative_bearing_degs
relative_bearing_degs(from_ship, to_ship) ==
    LET dx == to_ship.x - from_ship.x
        dy == to_ship.y - from_ship.y
        angle_abs == Atan2Deg(dy, dx) * AngleScale
    IN  Bind(angle_abs - from_ship.heading,
             LAMBDA rel : Bind(NormalizeDown(rel), NormalizeUp))

HeadOnLimit == (125 * AngleScale) \div 10     \* 12.5 degrees
AftLow == (1125 * AngleScale) \div 10         \* 112.5 degrees
AftHigh == 250 * AngleScale                   \* 250 degrees

\* classify_encounter
encounter_of(bearingAB, bearingBA) ==
    IF bearingAB < HeadOnLimit /\ bearingBA < HeadOnLimit THEN "head-on"
    ELSE IF \/ (AftLow < bearingAB /\ bearingAB < AftHigh)
            \/ (AftLow < bearingBA /\ bearingBA < AftHigh) THEN "overtaking"
    ELSE "crossing"

classify_encounter(shipA, shipB) ==
    Bind(<<Abs(relative_bearing_degs(shipA, shipB)),
           Abs(relative_bearing_degs(shipB, shipA))>>,
         LAMBDA b : encounter_of(b[1], b[2]))

\* is_on_starboard_side
is_on_starboard_side(shipA, shipB) ==
    Bind(relative_bearing_degs(shipA, shipB),
         LAMBDA bearingAB : -AftLow < bearingAB /\ bearingAB < 0)

(***************************************************************************)
(* simulator.py: the Simulator's fields, and the locals of step() that     *)
(* live across its phases                                                 *)
(***************************************************************************)
VARIABLES
    ships,                  \* self.ships: sequence of ship records
    time_step,              \* self.time_step, seconds
    safe_distance,          \* self.safe_distance, 0.001 NM
    heading_search_range,   \* self.heading_search_range, 1/AngleScale degrees
    heading_search_step,    \* self.heading_search_step, 1/AngleScale degrees
    collisions_avoided,     \* self.collisions_avoided: sequence of messages
    current_time,           \* self.current_time, seconds
    no_collision_count,     \* self.no_collision_count
    count_headon,           \* self.count_headon
    count_crossing,         \* self.count_crossing
    count_overtaking,       \* self.count_overtaking
    pc,                     \* position inside step(): "idle" between calls
    iteration,              \* step(): the loop variable of the resolution loop
    collisions,             \* step(): the list returned by detect_collisions
    idx,                    \* step(): index of the next pair of collisions
    improved_any,           \* step(): improved_any
    resolved,               \* the pair processed last and the searches made on it
    risk_seen               \* history: some detection has returned an at-risk pair

params == <<time_step, safe_distance, heading_search_range, heading_search_step>>
counters == <<count_headon, count_crossing, count_overtaking>>
vars == <<ships, params, collisions_avoided, current_time, no_collision_count,
          counters, pc, iteration, collisions, idx, improved_any, resolved,
          risk_seen>>

destination_threshold == PosScale \div 10        \* 0.1 NM
max_iters == 100
RelaxAfter == 10
RiskFactor == 3
StandOnCap == 10 * AngleScale                    \* 10.0 degrees
ArangeEps == AngleScale \div 10000               \* 0.0001 degrees
Infinity == 2000000000                           \* float('inf')

Min(a, b) == IF a < b THEN a ELSE b

RECURSIVE PairsFrom(_, _, _)
\* for i in range(n): for j in range(i+1, n), as 1-based indices
PairsFrom(i, j, n) ==
    IF i >= n THEN <<>>
    ELSE IF j > n THEN PairsFrom(i + 1, i + 2, n)
    ELSE <<<<i, j>>>> \o PairsFrom(i, j + 1, n)

\* the sort key with its two components exchanged: (dist_cpa, t_cpa)
KeyLeqDistFirst(a, b) ==
    \/ a.dist_cpa < b.dist_cpa
    \/ (a.dist_cpa = b.dist_cpa /\ a.t_cpa <= b.t_cpa)

\* the sort key of detect_collisions: (t_cpa, dist_cpa), compared as tuples
KeyLeq(a, b) ==
    \/ a.t_cpa < b.t_cpa
    \/ (a.t_cpa = b.t_cpa /\ a.dist_cpa <= b.dist_cpa)

RECURSIVE InsertSorted(_, _)
\* e placed behind every element whose key is not greater (list.sort is stable)
InsertSorted(sorted, e) ==
    IF sorted = <<>> THEN <<e>>
    ELSE IF KeyLeq(Head(sorted), e)
    THEN Bind(InsertSorted(Tail(sorted), e), LAMBDA rest : <<Head(sorted)>> \o rest)
    ELSE <<e>> \o sorted

RECURSIVE SortPairs(_)
SortPairs(seq) ==
    IF seq = <<>> THEN <<>>
    ELSE Bind(SortPairs(SubSeq(seq, 1, Len(seq) - 1)),
              LAMBDA sorted : InsertSorted(sorted, seq[Len(seq)]))

\* the test of detect_collisions on one pair
AtRisk(dist_cpa, safe) == dist_cpa < RiskFactor * safe

\* Simulator.detect_collisions
measure(sh, i, j) ==
    Bind(compute_cpa_and_tcpa(sh[i], sh[j]),
         LAMBDA c : [dist_cpa |-> c.dist_cpa, t_cpa |-> c.t_cpa, i |-> i, j |-> j])

detect_collisions(sh, safe) ==
    LET risky(c) == AtRisk(c.dist_cpa, safe)
    IN  Bind(PairsFrom(1, 2, Len(sh)),
             LAMBDA all :
                 Bind(SelectSeq([k \in 1..Len(all) |-> measure(sh, all[k][1], all[k][2])],
                                risky),
                      SortPairs))

\* Simulator.compute_min_cpa_over_others: the heading of give_ship is set to
\* test_heading for the evaluation and restored afterwards
MinOf(dists) ==
    IF dists = {} THEN Infinity
    ELSE CHOOSE d \in dists : \A e \in dists : d <= e

compute_min_cpa_over_others(sh, give_ship, test_heading) ==
    Bind([sh[give_ship] EXCEPT !.heading = test_heading],
         LAMBDA probe :
             Bind({compute_cpa_and_tcpa(probe, sh[o]).dist_cpa :
                      o \in (1..Len(sh)) \ {give_ship}},
                  MinOf))

\* an evaluation that leaves the vessel on the heading it has tested
after_probe_unrestored(sh, give_ship, test_heading) ==
    [sh EXCEPT ![give_ship].heading = test_heading]

\* the fleet after compute_min_cpa_over_others: give_ship.heading is set to
\* test_heading for the evaluation, then set back to old_heading
after_probe(sh, give_ship, test_heading) ==
    LET old_heading == sh[give_ship].heading
        probing == [sh EXCEPT ![give_ship].heading = test_heading]
    IN  [probing EXCEPT ![give_ship].heading = old_heading]

RECURSIVE after_probes(_, _, _, _, _, _)
\* the fleet after the evaluation of the offsets lo*step, ..., hi*step in
\* ascending order; unrolled by halves like the scan itself
after_probes(sh, k, base_heading, step, lo, hi) ==
    IF lo > hi THEN sh
    ELSE IF lo = hi THEN after_probe(sh, k, base_heading - lo * step)
    ELSE Bind((lo + hi) \div 2,
              LAMBDA mid :
                  Bind(after_probes(sh, k, base_heading, step, lo, mid),
                       LAMBDA first :
                           after_probes(first, k, base_heading, step, mid + 1, hi)))

\* the fleet after the evaluation of base_heading and of the offsets
\* step, ..., n * step
after_scan(sh, k, base_heading, step, n) ==
    Bind(after_probe(sh, k, base_heading),
         LAMBDA current : after_probes(current, k, base_heading, step, 1, n))

\* an offset that ties the best one replaces it
ImprovesOrTies(test_cpa, best_cpa) == test_cpa >= best_cpa

\* the comparison of the offset scan: if test_cpa > best_cpa
Improves(test_cpa, best_cpa) == test_cpa > best_cpa

\* a scan that evaluates no further offset once the best minimum
\* closest-approach distance has reached safe_distance
scan_offset_stop_when_safe(sh, k, base_heading, offset, best) ==
    IF best[1] >= safe_distance THEN best
    ELSE Bind(compute_min_cpa_over_others(sh, k, base_heading - offset),
              LAMBDA test_cpa : IF Improves(test_cpa, best[1]) THEN <<test_cpa, offset>>
                                ELSE best)

\* the body of the scan loop for one offset: best is <<best_cpa, best_offset>>
scan_offset(sh, k, base_heading, offset, best) ==
    Bind(compute_min_cpa_over_others(sh, k, base_heading - offset),
         LAMBDA test_cpa : IF Improves(test_cpa, best[1]) THEN <<test_cpa, offset>>
                           ELSE best)

RECURSIVE ScanOffsets(_, _, _, _, _, _, _)
\* for offset in increments, for the offsets lo*step, ..., hi*step in ascending
\* order, starting from best = <<best_cpa, best_offset>>; returns the final
\* <<best_cpa, best_offset>>. The loop is unrolled by halves, the first half
\* before the second, so that the nesting stays logarithmic.
ScanOffsets(sh, k, base_heading, step, lo, hi, best) ==
    IF lo > hi THEN best
    ELSE IF lo = hi THEN scan_offset(sh, k, base_heading, lo * step, best)
    ELSE Bind((lo + hi) \div 2,
              LAMBDA mid :
                  Bind(ScanOffsets(sh, k, base_heading, step, lo, mid, best),
                       LAMBDA first :
                           ScanOffsets(sh, k, base_heading, step, mid + 1, hi, first)))

\* len(np.arange(step, stop, step)): the number of k >= 1 with k * step < stop
arange_len(step, stop) == IF stop <= step THEN 0 ELSE (stop - 1) \div step

\* max_range of apply_multi_ship_starboard
max_range(range, stand_on) == IF stand_on THEN Min(range, StandOnCap) ELSE range

\* a search that reports success for the offset 0 as well
commit_offset_nonneg(sh, k, best_offset) ==
    IF best_offset >= 0
    THEN [ok |-> TRUE,
          ships |-> [sh EXCEPT ![k].heading = @ - best_offset,
                               ![k].heading_adjusted = @ + best_offset]]
    ELSE [ok |-> FALSE, ships |-> sh]

\* apply_multi_ship_starboard, from "if best_offset > 0": the turn is committed
commit_offset(sh, k, best_offset) ==
    IF best_offset > 0
    THEN [ok |-> TRUE,
          ships |-> [sh EXCEPT ![k].heading = @ - best_offset,
                               ![k].heading_adjusted = @ + best_offset]]
    ELSE [ok |-> FALSE, ships |-> sh]

\* Simulator.apply_multi_ship_starboard on ship k: [ok, ships]
apply_multi_ship_starboard(sh, k, stand_on, range, step) ==
    IF max_range(range, stand_on) - sh[k].heading_adjusted <= 0
    THEN [ok |-> FALSE, ships |-> sh]
    ELSE Bind(<<compute_min_cpa_over_others(sh, k, sh[k].heading), 0>>,
              LAMBDA current :
                  Bind(ScanOffsets(sh, k, sh[k].heading, step, 1,
                                   arange_len(step, max_range(range, stand_on)
                                                    - sh[k].heading_adjusted + ArangeEps),
                                   current),
                       LAMBDA best :
                           commit_offset(after_scan(sh, k, sh[k].heading, step,
                                                    arange_len(step, max_range(range, stand_on)
                                                                     - sh[k].heading_adjusted + ArangeEps)),
                                         k, best[2])))

\* a revert that turns the vessel all the way to its destination heading
revert_heading_unclamped(s, range) ==
    Bind(compute_heading_to_destination(s) - s.heading,
         LAMBDA d : Bind(NormalizeDown(d),
                         LAMBDA e : Bind(NormalizeUp(e),
                                         LAMBDA diff : [s EXCEPT !.heading = @ + diff])))

\* Simulator.revert_heading_with_clamp
revert_heading_with_clamp(s, range) ==
    LET curr_hd == s.heading
        dest_hd == compute_heading_to_destination(s)
        clamped(diff) == IF diff > range THEN range
                         ELSE IF diff < -range THEN -range
                         ELSE diff
    IN  Bind(dest_hd - curr_hd,
             LAMBDA d : Bind(NormalizeDown(d),
                             LAMBDA e : Bind(NormalizeUp(e),
                                             LAMBDA diff : [s EXCEPT !.heading = curr_hd + clamped(diff)])))

\* Simulator.all_ships_arrived
all_ships_arrived ==
    \A k \in 1..Len(ships) :
        distance_to_destination_sq(ships[k]) < destination_threshold * destination_threshold

\* roles with the fallback of an ambiguous crossing exchanged
assign_roles_fallback_stand_on(shipA, shipB, encounter_type) ==
    IF encounter_type = "head-on" THEN <<"Give-Way", "Give-Way">>
    ELSE IF encounter_type = "crossing"
    THEN IF is_on_starboard_side(shipA, shipB) THEN <<"Give-Way", "Stand-On">>
         ELSE <<"Stand-On", "Give-Way">>
    ELSE Bind(Abs(relative_bearing_degs(shipA, shipB)),
              LAMBDA bearingAB : IF AftLow < bearingAB /\ bearingAB < AftHigh
                                 THEN <<"Stand-On", "Give-Way">>
                                 ELSE <<"Give-Way", "Stand-On">>)

\* Simulator.assign_roles
assign_roles(shipA, shipB, encounter_type) ==
    IF encounter_type = "head-on" THEN <<"Give-Way", "Give-Way">>
    ELSE IF encounter_type = "crossing"
    THEN IF is_on_starboard_side(shipA, shipB) THEN <<"Give-Way", "Stand-On">>
         ELSE IF is_on_starboard_side(shipB, shipA) THEN <<"Stand-On", "Give-Way">>
         ELSE <<"Give-Way", "Stand-On">>
    ELSE Bind(Abs(relative_bearing_degs(shipA, shipB)),
              LAMBDA bearingAB : IF AftLow < bearingAB /\ bearingAB < AftHigh
                                 THEN <<"Stand-On", "Give-Way">>
                                 ELSE <<"Give-Way", "Stand-On">>)

\* the message appended to collisions_avoided for a successful search
Message(k, other, encounter, role, now) ==
    [ship |-> k, other |-> other, encounter |-> encounter, role |-> role,
     timestep |-> now]

\* the branch test of a crossing pair with the two vessels exchanged
first_is_A_swapped(shipA, shipB, encounter) ==
    IF encounter = "crossing" THEN is_on_starboard_side(shipB, shipA)
    ELSE Bind(Abs(relative_bearing_degs(shipA, shipB)),
              LAMBDA bearingAB : ~(AftLow < bearingAB /\ bearingAB < AftHigh))

\* step(): which vessel of a crossing or overtaking pair is searched first
\* (with the full range); the other one is the fallback (stand_on=True)
first_is_A(shipA, shipB, encounter) ==
    IF encounter = "crossing" THEN is_on_starboard_side(shipA, shipB)
    ELSE Bind(Abs(relative_bearing_degs(shipA, shipB)),
              LAMBDA bearingAB : ~(AftLow < bearingAB /\ bearingAB < AftHigh))

\* one call of apply_multi_ship_starboard as recorded in resolved.calls
Call(sh, k, stand_on, r) ==
    [ship |-> k, stand_on |-> stand_on, ok |-> r.ok, pre |-> sh, post |-> r.ships]

\* step(): the searches of the head-on branch: A, then B, both full range
head_on_second(sh, i, j, impA, range, step) ==
    Bind(apply_multi_ship_starboard(impA.ships, j, FALSE, range, step),
         LAMBDA impB : <<Call(sh, i, FALSE, impA), Call(impA.ships, j, FALSE, impB)>>)

head_on_calls(sh, i, j, range, step) ==
    Bind(apply_multi_ship_starboard(sh, i, FALSE, range, step),
         LAMBDA impA : head_on_second(sh, i, j, impA, range, step))

\* step(): the searches of a crossing or overtaking branch: the first vessel
\* with the full range and, if that fails, the other one with stand_on=True
two_stage_second(sh, first, second, imp1, range, step) ==
    IF imp1.ok THEN <<Call(sh, first, FALSE, imp1)>>
    ELSE Bind(apply_multi_ship_starboard(sh, second, TRUE, range, step),
              LAMBDA imp2 : <<Call(sh, first, FALSE, imp1), Call(sh, second, TRUE, imp2)>>)

two_stage_calls(sh, first, second, range, step) ==
    Bind(apply_multi_ship_starboard(sh, first, FALSE, range, step),
         LAMBDA imp1 : two_stage_second(sh, first, second, imp1, range, step))

\* the searches of one pair by encounter type
pair_calls(sh, i, j, encounter, a_first, range, step) ==
    IF encounter = "head-on" THEN head_on_calls(sh, i, j, range, step)
    ELSE two_stage_calls(sh, IF a_first THEN i ELSE j, IF a_first THEN j ELSE i, range, step)

pair_record(sh, c, encounter, range, step) ==
    [i |-> c.i, j |-> c.j, encounter |-> encounter,
     roles |-> assign_roles(sh[c.i], sh[c.j], encounter),
     calls |-> pair_calls(sh, c.i, c.j, encounter,
                          first_is_A(sh[c.i], sh[c.j], encounter), range, step)]

\* step(): the body of the loop over collisions for one pair that is not skipped
resolve_pair(sh, c, range, step) ==
    Bind(classify_encounter(sh[c.i], sh[c.j]),
         LAMBDA encounter : pair_record(sh, c, encounter, range, step))

\* the messages of the successful searches of a processed pair, in order
Messages(r, now) ==
    LET good(c) == c.ok
        wins == SelectSeq(r.calls, good)
    IN  [n \in 1..Len(wins) |->
            IF wins[n].ship = r.i
            THEN Message(r.i, r.j, r.encounter, r.roles[1], now)
            ELSE Message(r.j, r.i, r.encounter, r.roles[2], now)]

\* the stale-pair test with the comparison inverted
skip_pair_inverted(c, safe) == c.dist_cpa < RiskFactor * safe

\* step(): if dist_cpa >= 3 * self.safe_distance: continue
skip_pair(c, safe) == c.dist_cpa >= RiskFactor * safe

NoPair == [i |-> 0, j |-> 0, encounter |-> "none", roles |-> <<>>, calls |-> <<>>]

(***************************************************************************)
(* step(), phase by phase                                                  *)
(***************************************************************************)
\* step() is entered; 1) reset heading_adjusted for each ship
StepReset(max_ticks) ==
    /\ pc = "idle"
    /\ current_time < max_ticks * time_step
    /\ ships' = [k \in 1..Len(ships) |-> reset_heading_adjusted(ships[k])]
    /\ pc' = "detect"
    /\ resolved' = NoPair
    /\ UNCHANGED <<params, collisions_avoided, current_time, no_collision_count,
                   counters, iteration, collisions, idx, improved_any, risk_seen>>

\* 2) detect collisions, count the collision-free steps
StepDetect ==
    /\ pc = "detect"
    /\ collisions' = detect_collisions(ships, safe_distance)
    /\ no_collision_count' = IF collisions' = <<>> THEN no_collision_count + 1 ELSE 0
    /\ pc' = "relax"
    /\ risk_seen' = (risk_seen \/ collisions' # <<>>)
    /\ UNCHANGED <<ships, params, collisions_avoided, current_time, counters,
                   iteration, idx, improved_any, resolved>>

\* 3) if collision-free for multiple steps, revert heading
relax(sh, count, range) ==
    IF count > RelaxAfter
    THEN [k \in 1..Len(sh) |->
             IF distance_to_destination_sq(sh[k]) > destination_threshold * destination_threshold
             THEN revert_heading_with_clamp(sh[k], range)
             ELSE sh[k]]
    ELSE sh

StepRelax ==
    /\ pc = "relax"
    /\ ships' = relax(ships, no_collision_count, heading_search_range)
    /\ iteration' = 0
    /\ pc' = "iter"
    /\ UNCHANGED <<params, collisions_avoided, current_time, no_collision_count,
                   counters, collisions, idx, improved_any, resolved, risk_seen>>

\* 4) head of the resolution loop: for iteration in range(max_iters), detect,
\* break if there are no collisions
IterDetect ==
    /\ pc = "iter"
    /\ IF iteration >= max_iters
       THEN /\ pc' = "advance"
            /\ UNCHANGED <<collisions, idx, improved_any, risk_seen>>
       ELSE /\ collisions' = detect_collisions(ships, safe_distance)
            /\ risk_seen' = (risk_seen \/ collisions' # <<>>)
            /\ IF collisions' = <<>>
               THEN pc' = "advance" /\ UNCHANGED <<idx, improved_any>>
               ELSE pc' = "pair" /\ idx' = 1 /\ improved_any' = FALSE
    /\ UNCHANGED <<ships, params, collisions_avoided, current_time,
                   no_collision_count, counters, iteration, resolved>>

\* the effect of the loop body with the counter of the encounter incremented
\* once for the pair instead of once for every successful search
ResolvedCountsPairs(r, msgs) ==
    /\ ships' = r.calls[Len(r.calls)].post
    /\ collisions_avoided' = collisions_avoided \o msgs
    /\ count_headon' = count_headon + (IF r.encounter = "head-on" /\ Len(msgs) > 0 THEN 1 ELSE 0)
    /\ count_crossing' = count_crossing + (IF r.encounter = "crossing" /\ Len(msgs) > 0 THEN 1 ELSE 0)
    /\ count_overtaking' = count_overtaking + (IF r.encounter = "overtaking" /\ Len(msgs) > 0 THEN 1 ELSE 0)
    /\ improved_any' = (improved_any \/ Len(msgs) > 0)
    /\ resolved' = r

\* the effect of the loop body with improved_any set for every processed pair
ResolvedFlagsAlways(r, msgs) ==
    /\ ships' = r.calls[Len(r.calls)].post
    /\ collisions_avoided' = collisions_avoided \o msgs
    /\ count_headon' = count_headon + (IF r.encounter = "head-on" THEN Len(msgs) ELSE 0)
    /\ count_crossing' = count_crossing + (IF r.encounter = "crossing" THEN Len(msgs) ELSE 0)
    /\ count_overtaking' = count_overtaking + (IF r.encounter = "overtaking" THEN Len(msgs) ELSE 0)
    /\ improved_any' = TRUE
    /\ resolved' = r

\* the effect of the loop body for a pair that is not skipped
Resolved(r, msgs) ==
    /\ ships' = r.calls[Len(r.calls)].post
    /\ collisions_avoided' = collisions_avoided \o msgs
    /\ count_headon' = count_headon + (IF r.encounter = "head-on" THEN Len(msgs) ELSE 0)
    /\ count_crossing' = count_crossing + (IF r.encounter = "crossing" THEN Len(msgs) ELSE 0)
    /\ count_overtaking' = count_overtaking + (IF r.encounter = "overtaking" THEN Len(msgs) ELSE 0)
    /\ improved_any' = (improved_any \/ Len(msgs) > 0)
    /\ resolved' = r

\* the body of "for dist_cpa, t_cpa, i, j in collisions" for the next pair
ResolvePair ==
    /\ pc = "pair"
    /\ IF skip_pair(collisions[idx], safe_distance)
       THEN UNCHANGED <<ships, collisions_avoided, counters, improved_any, resolved>>
       ELSE \E r \in {resolve_pair(ships, collisions[idx], heading_search_range,
                                   heading_search_step)} :
                Resolved(r, Messages(r, current_time))
    /\ idx' = idx + 1
    /\ pc' = IF idx = Len(collisions) THEN "iterend" ELSE "pair"
    /\ UNCHANGED <<params, current_time, no_collision_count, iteration, collisions,
                   risk_seen>>

\* the end of one iteration with the early exit left out: every iteration is
\* followed by another one
IterEndNoBreak ==
    /\ pc = "iterend"
    /\ pc' = "iter"
    /\ iteration' = iteration + 1
    /\ UNCHANGED <<ships, params, collisions_avoided, current_time,
                   no_collision_count, counters, collisions, idx, improved_any, resolved,
                   risk_seen>>

\* the end of one iteration: break if not improved_any, else the next iteration
IterEnd ==
    /\ pc = "iterend"
    /\ IF ~improved_any
       THEN pc' = "advance" /\ UNCHANGED iteration
       ELSE pc' = "iter" /\ iteration' = iteration + 1
    /\ UNCHANGED <<ships, params, collisions_avoided, current_time,
                   no_collision_count, counters, collisions, idx, improved_any, resolved,
                   risk_seen>>

\* an advance that records the arrival and moves the vessel all the same
advance_drifting(s, dt, now) ==
    IF distance_to_destination_sq(s) < destination_threshold * destination_threshold
    THEN update_position(IF s.arrival_time = NoTime THEN [s EXCEPT !.arrival_time = now] ELSE s, dt)
    ELSE update_position(s, dt)

\* an advance that moves only the vessels strictly beyond the threshold
advance_beyond(s, dt, now) ==
    IF distance_to_destination_sq(s) > destination_threshold * destination_threshold
    THEN update_position(s, dt)
    ELSE IF s.arrival_time = NoTime THEN [s EXCEPT !.arrival_time = now] ELSE s

\* an advance that records the arrival in every tick spent inside the threshold
advance_restamp(s, dt, now) ==
    IF distance_to_destination_sq(s) < destination_threshold * destination_threshold
    THEN [s EXCEPT !.arrival_time = now]
    ELSE update_position(s, dt)

\* 5) move ships: record the arrival of a ship inside the threshold, move the others
advance(s, dt, now) ==
    IF distance_to_destination_sq(s) < destination_threshold * destination_threshold
    THEN IF s.arrival_time = NoTime THEN [s EXCEPT !.arrival_time = now] ELSE s
    ELSE update_position(s, dt)

\* 5) and the increment of the simulation time; step() returns
StepAdvance ==
    /\ pc = "advance"
    /\ ships' = [k \in 1..Len(ships) |-> advance(ships[k], time_step, current_time)]
    /\ current_time' = current_time + time_step
    /\ pc' = "idle"
    /\ iteration' = 0
    /\ collisions' = <<>>
    /\ idx' = 1
    /\ improved_any' = FALSE
    /\ UNCHANGED <<params, collisions_avoided, no_collision_count, counters, resolved,
                   risk_seen>>

(***************************************************************************)
(* Construction                                                            *)
(***************************************************************************)
MaxTicks == 13
MaxTicksA == 50

\* Simulator.__init__
InitSim(fleet, p) ==
    /\ ships = fleet
    /\ time_step = p[1]
    /\ safe_distance = p[2]
    /\ heading_search_range = p[3]
    /\ heading_search_step = p[4]
    /\ collisions_avoided = <<>>
    /\ current_time = 0
    /\ no_collision_count = 0
    /\ count_headon = 0
    /\ count_crossing = 0
    /\ count_overtaking = 0
    /\ pc = "idle"
    /\ iteration = 0
    /\ collisions = <<>>
    /\ idx = 1
    /\ improved_any = FALSE
    /\ resolved = NoPair
    /\ risk_seen = FALSE

\* Scenario A: (0,0) -> (5,5) and (5,5) -> (0,0), 20 kn, safe distance 0.2 NM,
\* the default time step 30 s, search range 40 degrees, search step 1 degree
ScenarioA == << NewShip(0, 0, 20, 500, 500), NewShip(500, 500, 20, 0, 0) >>
DefaultParams == <<30, 200, 40 * AngleScale, 1 * AngleScale>>

InitA == InitSim(ScenarioA, DefaultParams)

\* Fleets of the general specification: vessel 1 sails east along the x axis,
\* vessel 2 starts and ends on a grid of points around that track
GridX == {0, 50, 100}
GridY == {-40, 0, 40}
Speeds == {10, 20}

Vessel1 == NewShip(0, 0, 10, 100, 0)

Vessels2 ==
    { NewShip(x, y, v, dx, dy) :
        <<x, y, v, dx, dy>> \in
            { q \in GridX \X GridY \X Speeds \X GridX \X GridY :
                /\ <<q[1], q[2]>> # <<q[4], q[5]>>
                /\ <<q[1], q[2]>> # <<0, 0>> } }

\* a third vessel crossing the track from the south or from the north
Vessels3 == { NewShip(50, -60, 20, 50, 60), NewShip(60, 50, 10, 40, -50) }

\* vessels created at exactly destination_threshold from their destination
VesselsAtThreshold == { NewShip(100, -10, 10, 100, 0), NewShip(0, 40, 20, 10, 40) }

\* a westbound vessel with a distant destination: after a turn to starboard the
\* bearing of its destination crosses from 180 to -180 degrees
VesselsWestbound == { NewShip(100, 0, 10, -300, 0) }

TwoShipFleets ==
    { <<Vessel1, s2>> : s2 \in Vessels2 \cup VesselsAtThreshold \cup VesselsWestbound }
ThreeShipFleets ==
    { <<Vessel1, NewShip(100, 0, 10, 0, 0), s3>> : s3 \in Vessels3 }
    \cup { <<Vessel1, NewShip(100, 40, 20, 0, -40), s3>> : s3 \in Vessels3 }

\* time_step s, safe_distance 0.001 NM, heading_search_range, heading_search_step
CoarseParams == <<30, 200, 40 * AngleScale, 10 * AngleScale>>
\* a step of 3.33335 degrees in a range of 10 degrees, a time step of 60 s
FineParams == <<60, 200, 10 * AngleScale, 333335>>

Init ==
    \/ \E fleet \in TwoShipFleets \cup ThreeShipFleets : InitSim(fleet, CoarseParams)
    \/ \E fleet \in TwoShipFleets : InitSim(fleet, FineParams)

Steps(max_ticks) ==
    \/ StepReset(max_ticks)
    \/ StepDetect
    \/ StepRelax
    \/ IterDetect
    \/ ResolvePair
    \/ IterEnd
    \/ StepAdvance

NextA == Steps(MaxTicksA)

SpecA == InitA /\ [][NextA]_vars

Next == Steps(MaxTicks)

Spec == Init /\ [][Next]_vars

(***************************************************************************)
(* Inputs of the constructor and of the functions of colreg.py: vessels     *)
(* built from any arguments, also at their destination, and pairs of       *)
(* vessels as earlier ticks can have left them, at any relative position   *)
(* and with headings that turns have taken outside [0, 360)                *)
(***************************************************************************)
MaxTicksIn == 1

\* the arguments x, y, speed, dest_x, dest_y of the second vessel
CtorArgs == { q \in GridX \X GridY \X {10} \X GridX \X GridY : <<q[1], q[2]>> # <<0, 0>> }

\* the program after Ship.__init__ has raised: no Simulator, no step()
InitRaised ==
    /\ ships = <<>>
    /\ time_step = CoarseParams[1]
    /\ safe_distance = CoarseParams[2]
    /\ heading_search_range = CoarseParams[3]
    /\ heading_search_step = CoarseParams[4]
    /\ collisions_avoided = <<>>
    /\ current_time = 0
    /\ no_collision_count = 0
    /\ count_headon = 0
    /\ count_crossing = 0
    /\ count_overtaking = 0
    /\ pc = "raised"
    /\ iteration = 0
    /\ collisions = <<>>
    /\ idx = 1
    /\ improved_any = FALSE
    /\ resolved = NoPair
    /\ risk_seen = FALSE

\* Ship(...) for vessel 1 and for the second vessel, then Simulator(ships, ...)
InitBuilt(q) ==
    IF init_raises(q[1], q[2], q[4], q[5]) THEN InitRaised
    ELSE InitSim(<<Vessel1, NewShip(q[1], q[2], q[3], q[4], q[5])>>, CoarseParams)

\* headings in whole degrees, inside and outside [0, 360)
HeadingsIn == { -720, -405, -180, -135, -90, -45, 0, 45, 90, 135, 180, 270, 585 }

\* the positions of the second vessel around the first one
RingIn == { <<40, 0>>, <<-40, 0>>, <<0, 40>>, <<0, -40>>,
            <<30, 30>>, <<-30, 30>>, <<30, -30>>, <<-30, -30>> }

\* vessel 1 at the origin and a second vessel on the ring, each on any heading
TurnedPairs ==
    { << [Vessel1 EXCEPT !.heading = hA * AngleScale],
         [NewShip(p[1], p[2], v, -p[1], -p[2]) EXCEPT !.heading = hB * AngleScale] >> :
        <<hA, hB, p, v>> \in HeadingsIn \X HeadingsIn \X RingIn \X Speeds }

InitInputs ==
    \/ \E q \in CtorArgs : InitBuilt(q)
    \/ \E fleet \in TurnedPairs : InitSim(fleet, CoarseParams)

NextInputs == Steps(MaxTicksIn)

SpecInputs == InitInputs /\ [][NextInputs]_vars

\* step() runs to completion once it is entered, and the caller keeps calling it
FairSpecA == SpecA /\ WF_vars(NextA)

FairSpec == Spec /\ WF_vars(Next)

(***************************************************************************)
(* Properties of step()                                                    *)
(***************************************************************************)
\* C1: every tick terminates: an iteration of the resolution loop is only
\* entered while fewer than max_iters = 100 iterations have been made, the loop
\* is left as soon as a detection finds no pair at risk or an iteration has
\* improved no pair, and a step that has been entered returns
C1_StepTerminates ==
    /\ [](pc \in {"pair", "iterend"} => iteration < max_iters)
    /\ [][(pc = "iter" /\ detect_collisions(ships, safe_distance) = <<>>)
             => pc' = "advance"]_vars
    /\ [][(pc = "iterend" /\ ~improved_any) => pc' = "advance"]_vars
    /\ (pc # "idle") ~> (pc = "idle")

\* a loop that was left because its second or a later iteration improved no
\* pair, with pairs still at risk
C1_Witness ==
    /\ pc = "advance"
    /\ iteration >= 1
    /\ ~improved_any
    /\ collisions # <<>>

\* C2: the turn budget a vessel has used never exceeds heading_search_range
C2_BudgetWithinRange ==
    \A k \in 1..Len(ships) : ships[k].heading_adjusted <= heading_search_range

\* the minimum CPA distance of vessel k to the other vessels at its heading
MinCpa(sh, k) == compute_min_cpa_over_others(sh, k, sh[k].heading)

\* C3: every search that reported success left the searched vessel with a
\* minimum CPA distance to the other vessels strictly larger than the one it
\* had when the search started
C3_SuccessImproves ==
    \A n \in 1..Len(resolved.calls) :
        resolved.calls[n].ok =>
            MinCpa(resolved.calls[n].post, resolved.calls[n].ship)
                > MinCpa(resolved.calls[n].pre, resolved.calls[n].ship)

\* a search on a fleet of two or more vessels has reported success
C3_Witness ==
    \E n \in 1..Len(resolved.calls) :
        /\ resolved.calls[n].ok
        /\ resolved.calls[n].post[resolved.calls[n].ship].heading
               # resolved.calls[n].pre[resolved.calls[n].ship].heading

\* the distance between the two vessels of Scenario A, in 0.001 NM
Separation ==
    NormMilli(Minus(get_position_vector(ships[2]), get_position_vector(ships[1])))

\* the pair processed last had a successful search on vessel k that turned it
\* to starboard (a smaller heading)
TurnedStarboard(k) ==
    \E n \in 1..Len(resolved.calls) :
        /\ resolved.calls[n].ship = k
        /\ resolved.calls[n].ok
        /\ resolved.calls[n].post[k].heading < resolved.calls[n].pre[k].heading

\* C4: in Scenario A both vessels are turned to starboard, the distance between
\* them is never below safe_distance, and eventually all ships have arrived
C4_ScenarioA ==
    /\ [](Separation >= safe_distance)
    /\ <>(TurnedStarboard(1) /\ TurnedStarboard(2))
    /\ <>all_ships_arrived

\* Scenario A has ended: both vessels have arrived after one maneuver each
C4_Witness ==
    /\ all_ships_arrived
    /\ count_headon = 2
    /\ Len(collisions_avoided) = 2
    /\ \A k \in 1..Len(ships) : ships[k].arrival_time # NoTime

\* the fleet before the first search and after the last search of the pair
\* processed last
PreShips == resolved.calls[1].pre
PostShips == resolved.calls[Len(resolved.calls)].post

\* in the crossing pair processed last, vessel b was on vessel a's starboard side
CrossingOnStarboard(a, b) ==
    /\ resolved.encounter = "crossing"
    /\ {a, b} = {resolved.i, resolved.j}
    /\ is_on_starboard_side(PreShips[a], PreShips[b])

\* C5 as stated: in a crossing encounter with B on A's starboard side, the
\* resolution of the pair never changes B's heading
C5_StandOnKeepsHeading ==
    \A a, b \in 1..Len(ships) :
        CrossingOnStarboard(a, b) => PostShips[b].heading = PreShips[b].heading

\* the vessel of the crossing pair processed last that has the other one on its
\* starboard side, the lower-numbered one if both have
GivesWay == IF is_on_starboard_side(PreShips[resolved.i], PreShips[resolved.j])
            THEN resolved.i ELSE resolved.j
StandsOn == IF GivesWay = resolved.i THEN resolved.j ELSE resolved.i

\* C5, amended: in a crossing encounter with B on A's starboard side (A the
\* lower-numbered vessel if each is on the other's starboard side), A is
\* searched first, with the full range; if that search succeeds it is the only
\* one; B's heading is changed only by a successful stand_on search made after
\* A's search has failed
C5_GiveWayFirst ==
    CrossingOnStarboard(GivesWay, StandsOn) =>
        /\ resolved.calls[1].ship = GivesWay
        /\ ~resolved.calls[1].stand_on
        /\ resolved.calls[1].ok =>
               /\ Len(resolved.calls) = 1
               /\ PostShips[GivesWay].heading # PreShips[GivesWay].heading
        /\ PostShips[StandsOn].heading # PreShips[StandsOn].heading =>
               /\ ~resolved.calls[1].ok
               /\ Len(resolved.calls) = 2
               /\ resolved.calls[2].ship = StandsOn
               /\ resolved.calls[2].stand_on
               /\ resolved.calls[2].ok

\* a crossing pair in which the give-way search failed and the stand-on vessel
\* was turned
C5_Witness ==
    /\ CrossingOnStarboard(GivesWay, StandsOn)
    /\ ~is_on_starboard_side(PreShips[StandsOn], PreShips[GivesWay])
    /\ ~resolved.calls[1].ok
    /\ PostShips[StandsOn].heading # PreShips[StandsOn].heading

\* the angle between the heading of s and its heading to the destination
OffCourse(s) ==
    Abs(NormalizeUp(NormalizeDown(compute_heading_to_destination(s) - s.heading)))

\* s is farther from its destination than destination_threshold
Underway(s) == distance_to_destination_sq(s) > destination_threshold * destination_threshold

\* the rounding of positions to 0.01 NM moves the heading to the destination
\* of a vessel underway by less than this
CourseTolerance == 5 * AngleScale

\* C6: as long as no detection has found a pair at risk, every vessel underway
\* heads for its destination, no turn budget is used and no maneuver is recorded
C6_NoConflictKeepsCourse ==
    ~risk_seen =>
        /\ \A k \in 1..Len(ships) :
               Underway(ships[k]) => OffCourse(ships[k]) <= CourseTolerance
        /\ \A k \in 1..Len(ships) : ships[k].heading_adjusted = 0
        /\ collisions_avoided = <<>>

\* the order of the phases of step()
PhaseOrder ==
    { <<"idle", "detect">>, <<"detect", "relax">>, <<"relax", "iter">>,
      <<"iter", "pair">>, <<"iter", "advance">>, <<"pair", "iterend">>,
      <<"iterend", "iter">>, <<"iterend", "advance">>, <<"advance", "idle">> }

\* the position of a vessel with the fields of s after dt seconds on its heading
Moved(s, dt) ==
    << s.x + RoundDiv(s.speed * dt * CosDeg(Deg(s.heading)), 3600 * (TrigScale \div PosScale)),
       s.y + RoundDiv(s.speed * dt * SinDeg(Deg(s.heading)), 3600 * (TrigScale \div PosScale)) >>

\* C7: a step is the sequence reset, detect, resolve, advance: the reset of all
\* turn budgets is the first phase and detection the next one, headings change
\* only in the phases before the advance, positions change only in the advance
\* phase, where every vessel not yet inside the threshold moves along the
\* heading the resolution has left it with, and the clock changes only there,
\* by time_step
C7_StepOrder ==
    /\ [][pc' # pc => <<pc, pc'>> \in PhaseOrder]_vars
    /\ [][pc = "idle" => \A k \in 1..Len(ships) : ships'[k].heading_adjusted = 0]_vars
    /\ [][(\E k \in 1..Len(ships) : ships'[k].heading # ships[k].heading)
             => pc \in {"relax", "pair"}]_vars
    /\ [][(\E k \in 1..Len(ships) : get_position_vector(ships'[k])
                                        # get_position_vector(ships[k]))
             => pc = "advance"]_vars
    /\ [][pc = "advance" =>
             /\ \A k \in 1..Len(ships) :
                    get_position_vector(ships'[k]) =
                        IF distance_to_destination_sq(ships[k])
                               < destination_threshold * destination_threshold
                        THEN get_position_vector(ships[k])
                        ELSE Moved(ships[k], time_step)
             /\ current_time' = current_time + time_step]_vars
    /\ [][current_time' # current_time => pc = "advance"]_vars

\* a tick has ended in which a vessel was turned and then moved along its new
\* heading
C7_Witness ==
    /\ pc = "idle"
    /\ current_time = time_step
    /\ resolved.i # 0
    /\ \E k \in 1..Len(ships) :
           /\ PostShips[k].heading # PreShips[k].heading
           /\ ships[k].heading = PostShips[k].heading
           /\ get_position_vector(ships[k]) = Moved(PostShips[k], time_step)
           /\ get_position_vector(ships[k]) # get_position_vector(PostShips[k])

\* C8 as stated: when detection starts, every vessel underway has used no turn
\* budget and heads for its destination
C8_TickStartsOnCourse ==
    pc = "detect" =>
        \A k \in 1..Len(ships) :
            Underway(ships[k]) =>
                /\ ships[k].heading_adjusted = 0
                /\ OffCourse(ships[k]) <= CourseTolerance

\* C8, amended: the first phase of a tick sets the turn budget used of every
\* vessel to 0 and changes nothing else: every vessel enters detection with
\* the heading the previous tick has left it with
C8_ResetKeepsHeading ==
    [][pc = "idle" =>
          \A k \in 1..Len(ships) :
              ships'[k] = [ships[k] EXCEPT !.heading_adjusted = 0]]_vars

\* detection starts with a vessel underway that has used no budget and does not
\* head for its destination: it was turned in an earlier tick
C8_Witness ==
    /\ pc = "detect"
    /\ collisions_avoided # <<>>
    /\ \E k \in 1..Len(ships) :
           /\ Underway(ships[k])
           /\ ships[k].heading_adjusted = 0
           /\ OffCourse(ships[k]) > CourseTolerance

\* collisions holds the result of detect_collisions on the present fleet
JustDetected == pc = "relax" \/ (pc = "pair" /\ idx = 1)

\* the closest-approach distance and time of vessels i and j
Cpa(i, j) == compute_cpa_and_tcpa(ships[i], ships[j])

\* C9: detect_collisions returns the pairs i < j whose closest-approach
\* distance is strictly below 3 * safe_distance, with that distance and the
\* time to closest approach, each pair once, in ascending order of
\* (time to closest approach, closest-approach distance)
C9_DetectExactSorted ==
    JustDetected =>
        /\ \A n \in 1..Len(collisions) :
               /\ collisions[n].i \in 1..Len(ships)
               /\ collisions[n].j \in 1..Len(ships)
               /\ collisions[n].i < collisions[n].j
               /\ collisions[n].dist_cpa = Cpa(collisions[n].i, collisions[n].j).dist_cpa
               /\ collisions[n].t_cpa = Cpa(collisions[n].i, collisions[n].j).t_cpa
               /\ collisions[n].dist_cpa < 3 * safe_distance
        /\ \A i, j \in 1..Len(ships) :
               (i < j /\ Cpa(i, j).dist_cpa < 3 * safe_distance) =>
                   Cardinality({n \in 1..Len(collisions) :
                                   collisions[n].i = i /\ collisions[n].j = j}) = 1
        /\ \A n \in 1..(Len(collisions) - 1) :
               \/ collisions[n].t_cpa < collisions[n + 1].t_cpa
               \/ /\ collisions[n].t_cpa = collisions[n + 1].t_cpa
                  /\ collisions[n].dist_cpa <= collisions[n + 1].dist_cpa

\* a detection on three vessels that left a pair out and returned the two
\* pairs at risk with the sooner one first although it is the farther one
C9_Witness ==
    /\ JustDetected
    /\ Len(ships) = 3
    /\ Len(collisions) = 2
    /\ collisions[1].t_cpa < collisions[2].t_cpa
    /\ collisions[1].dist_cpa > collisions[2].dist_cpa

\* the role assign_roles gave vessel k of the pair processed last
RoleOf(k) == IF k = resolved.i THEN resolved.roles[1] ELSE resolved.roles[2]

\* C10: for every pair processed, the first search is a full-range search on a
\* vessel labelled Give-Way, and a stand_on search is made only on the vessel
\* labelled Stand-On, after the search on the Give-Way vessel has failed
C10_GiveWaySearchedFirst ==
    resolved.i # 0 =>
        /\ ~resolved.calls[1].stand_on
        /\ RoleOf(resolved.calls[1].ship) = "Give-Way"
        /\ \A n \in 1..Len(resolved.calls) :
               resolved.calls[n].stand_on =>
                   /\ n = 2
                   /\ RoleOf(resolved.calls[n].ship) = "Stand-On"
                   /\ ~resolved.calls[1].ok

(***************************************************************************)
(* Properties of the constructor, of colreg.py and of the searches          *)
(***************************************************************************)
\* the pairs of distinct vessels, in both orders
OrderedPairs == { p \in (1..Len(ships)) \X (1..Len(ships)) : p[1] # p[2] }

\* classify_encounter and assign_roles with vessel i as shipA, vessel j as shipB
Encounter(i, j) == classify_encounter(ships[i], ships[j])
Roles(i, j) == assign_roles(ships[i], ships[j], Encounter(i, j))

\* vessel j is astern of vessel i: i sees j in its aft arc
Astern(i, j) ==
    Bind(Abs(relative_bearing_degs(ships[i], ships[j])),
         LAMBDA b : AftLow < b /\ b < AftHigh)

\* C11: for every pair of vessels the encounter type does not depend on the
\* order of the arguments, assign_roles with the arguments exchanged returns
\* the two roles exchanged, and in an overtaking encounter the vessel astern
\* of the other is labelled Give-Way
C11_RolesSymmetric ==
    \A p \in OrderedPairs :
        /\ Encounter(p[1], p[2]) = Encounter(p[2], p[1])
        /\ Roles(p[2], p[1]) = <<Roles(p[1], p[2])[2], Roles(p[1], p[2])[1]>>
        /\ (Encounter(p[1], p[2]) = "overtaking" /\ Astern(p[1], p[2]))
               => Roles(p[1], p[2])[2] = "Give-Way"

\* s is exactly destination_threshold away from its destination
AtThreshold(s) ==
    distance_to_destination_sq(s) = destination_threshold * destination_threshold

\* C12 as stated: the advance phase changes the position of a vessel if and
\* only if its distance to the destination is strictly greater than
\* destination_threshold
C12_MovedIffBeyond ==
    [][pc = "advance" =>
          \A k \in 1..Len(ships) :
              (get_position_vector(ships'[k]) # get_position_vector(ships[k]))
                  <=> Underway(ships[k])]_vars

\* C12, amended: the advance phase moves a vessel along its heading if and only
\* if its distance to the destination is not strictly less than
\* destination_threshold: a vessel exactly at the threshold is moved, a vessel
\* strictly inside it is left in place
C12_MovedIffNotBelow ==
    [][pc = "advance" =>
          \A k \in 1..Len(ships) :
              IF Underway(ships[k]) \/ AtThreshold(ships[k])
              THEN /\ get_position_vector(ships'[k]) = Moved(ships[k], time_step)
                   /\ get_position_vector(ships'[k]) # get_position_vector(ships[k])
              ELSE get_position_vector(ships'[k]) = get_position_vector(ships[k])]_vars

\* the position from which a move of dt seconds along its heading has taken s
\* to where it is
MovedFrom(s, dt) ==
    [s EXCEPT !.x = @ - RoundDiv(s.speed * dt * CosDeg(Deg(s.heading)),
                                 3600 * (TrigScale \div PosScale)),
              !.y = @ - RoundDiv(s.speed * dt * SinDeg(Deg(s.heading)),
                                 3600 * (TrigScale \div PosScale))]

\* the first tick has moved a vessel that was exactly destination_threshold
\* away from its destination
C12_Witness ==
    /\ pc = "idle"
    /\ current_time = time_step
    /\ \E k \in 1..Len(ships) :
           /\ AtThreshold(MovedFrom(ships[k], time_step))
           /\ ships[k].arrival_time = NoTime
           /\ ~Underway(ships[k])

\* s is strictly inside destination_threshold of its destination
Arrived(s) ==
    distance_to_destination_sq(s) < destination_threshold * destination_threshold

\* C13: arrival_time is unset at construction and stays unset until an advance
\* phase finds the vessel inside destination_threshold; that advance phase sets
\* it to the clock value of its tick (the value before the tick's increment);
\* no phase changes it once it is set
C13_ArrivalTimeSetOnce ==
    /\ \A k \in 1..Len(ships) : ships[k].arrival_time = NoTime
    /\ [][pc = "advance" =>
             \A k \in 1..Len(ships) :
                 ships'[k].arrival_time =
                     IF Arrived(ships[k]) /\ ships[k].arrival_time = NoTime
                     THEN current_time
                     ELSE ships[k].arrival_time]_vars
    /\ [][pc # "advance" =>
             \A k \in 1..Len(ships) : ships'[k].arrival_time = ships[k].arrival_time]_vars
    /\ [][\A k \in 1..Len(ships) :
             ships[k].arrival_time # NoTime =>
                 ships'[k].arrival_time = ships[k].arrival_time]_vars
    /\ [](\A k \in 1..Len(ships) :
             ships[k].arrival_time # NoTime =>
                 Arrived(ships[k]) /\ ships[k].arrival_time < current_time)

\* a vessel arrived in a tick after the first one, and two or more ticks have
\* been made since
C13_Witness ==
    /\ pc = "idle"
    /\ \E k \in 1..Len(ships) :
           /\ ships[k].arrival_time > 0
           /\ ships[k].arrival_time + 2 * time_step < current_time

\* the vessel as a static obstacle if it is inside destination_threshold
Obstacle(s) == IF Arrived(s) THEN [s EXCEPT !.speed = 0] ELSE s

\* C14: a vessel inside destination_threshold takes part in risk detection as
\* a static obstacle: every detection returns what it would return with the
\* speed of every such vessel set to zero
C14_ArrivedIsStatic ==
    JustDetected =>
        collisions = detect_collisions([k \in 1..Len(ships) |-> Obstacle(ships[k])],
                                       safe_distance)

\* vessel j is on the starboard side of vessel i
Starboard(i, j) == is_on_starboard_side(ships[i], ships[j])

\* the role table for an encounter type e, the roles r, B on A's starboard
\* side (ab), A on B's starboard side (ba), A's bearing to B in the aft arc
RoleRow(e, r, ab, ba, aft) ==
    /\ e = "head-on" => r = <<"Give-Way", "Give-Way">>
    /\ (e = "crossing" /\ ab) => r = <<"Give-Way", "Stand-On">>
    /\ (e = "crossing" /\ ~ab /\ ba) => r = <<"Stand-On", "Give-Way">>
    /\ (e = "crossing" /\ ~ab /\ ~ba) => r = <<"Give-Way", "Stand-On">>
    /\ (e = "overtaking" /\ aft) => r = <<"Stand-On", "Give-Way">>
    /\ (e = "overtaking" /\ ~aft) => r = <<"Give-Way", "Stand-On">>
    /\ "Give-Way" \in {r[1], r[2]}
    /\ r = <<"Give-Way", "Give-Way">> => e = "head-on"

\* C15: assign_roles follows the role table for every pair (A, B): head-on
\* gives (Give-Way, Give-Way); crossing gives (Give-Way, Stand-On) when B is on
\* A's starboard side, otherwise (Stand-On, Give-Way) when A is on B's
\* starboard side, otherwise the fallback (Give-Way, Stand-On); overtaking
\* gives (Stand-On, Give-Way) when A's bearing to B is in the aft arc and
\* (Give-Way, Stand-On) otherwise; every pair has a Give-Way vessel and both
\* are Give-Way only in head-on
C15_RoleTable ==
    \A p \in OrderedPairs :
        Bind(<<Encounter(p[1], p[2]), Roles(p[1], p[2]), Starboard(p[1], p[2]),
               Starboard(p[2], p[1]), Astern(p[1], p[2])>>,
             LAMBDA t : RoleRow(t[1], t[2], t[3], t[4], t[5]))

\* a crossing pair in which neither vessel is on the other's starboard side
\* has the fallback roles
C15_Witness ==
    \E p \in OrderedPairs :
        /\ Encounter(p[1], p[2]) = "crossing"
        /\ ~Starboard(p[1], p[2])
        /\ ~Starboard(p[2], p[1])
        /\ Roles(p[1], p[2]) = <<"Give-Way", "Stand-On">>

\* the absolute bearing of vessel j from vessel i minus the heading of i
RawBearing(i, j) ==
    Atan2Deg(ships[j].y - ships[i].y, ships[j].x - ships[i].x) * AngleScale
        - ships[i].heading

\* r is in (-180, 180] and congruent to raw modulo 360 degrees
NormalizedFrom(r, raw) ==
    /\ r > -180 * AngleScale
    /\ r <= 180 * AngleScale
    /\ (r - raw) % (360 * AngleScale) = 0

\* C16: for every pair of vessels and every heading, relative_bearing_degs
\* returns a value in (-180, 180] that is congruent modulo 360 to the absolute
\* bearing of the target minus the heading of the observer
C16_BearingNormalized ==
    \A p \in OrderedPairs :
        Bind(<<relative_bearing_degs(ships[p[1]], ships[p[2]]), RawBearing(p[1], p[2])>>,
             LAMBDA t : NormalizedFrom(t[1], t[2]))

\* an observer whose heading is more than a full turn outside [0, 360): the
\* bearing before normalization is more than 540 degrees away from 0
C16_Witness ==
    \E p \in OrderedPairs :
        /\ Abs(RawBearing(p[1], p[2])) > 540 * AngleScale
        /\ relative_bearing_degs(ships[p[1]], ships[p[2]]) # RawBearing(p[1], p[2])

\* r0 and v_rel of compute_cpa_and_tcpa for vessels i and j
RelPos(i, j) == Minus(get_position_vector(ships[j]), get_position_vector(ships[i]))
RelVel(i, j) == Minus(get_velocity_vector(ships[j]), get_velocity_vector(ships[i]))

\* the distance, in 0.001 NM, that r0 becomes after t seconds of the relative
\* velocity v_rel: 1/VelScale knots are 1/72 of 0.001 NM per second
SeparationAfter(r0, v_rel, t) ==
    LET q == (3600 * VelScale) \div (10 * PosScale)
        rx == r0[1] * 10 + RoundDiv(v_rel[1] * t, q)
        ry == r0[2] * 10 + RoundDiv(v_rel[2] * t, q)
    IN  ISqrt(rx * rx + ry * ry)

\* what one second of relative motion changes of a distance, in 0.001 NM, plus
\* the rounding of the two square roots: t_cpa is in whole seconds
CpaTolerance(v_rel) ==
    ISqrt(Dot(v_rel, v_rel)) \div ((3600 * VelScale) \div (10 * PosScale)) + 2

\* the result c of compute_cpa_and_tcpa for r0 and v_rel is clamped and exact
ClampedCpa(c, r0, v_rel, now) ==
    /\ c.t_cpa >= 0
    /\ (Dot(v_rel, v_rel) # 0 /\ -Dot(r0, v_rel) < 0)
           => (c.t_cpa = 0 /\ c.dist_cpa = now)
    /\ Abs(c.dist_cpa - SeparationAfter(r0, v_rel, c.t_cpa)) <= CpaTolerance(v_rel)
    /\ c.dist_cpa <= now + 2

\* C17: compute_cpa_and_tcpa never returns a negative time; when the time of
\* the closest approach is negative it returns time 0 with the present
\* distance; the distance it returns is the distance of the two vessels at the
\* time it returns, under constant velocities, and is not greater than the
\* present distance
C17_ClampedCpa ==
    \A p \in OrderedPairs :
        Bind(<<Cpa(p[1], p[2]), RelPos(p[1], p[2]), RelVel(p[1], p[2]),
               NormMilli(RelPos(p[1], p[2]))>>,
             LAMBDA t : ClampedCpa(t[1], t[2], t[3], t[4]))

\* two vessels moving apart whose tracks were more than 0.1 NM closer to each
\* other in the past than the vessels are now
C17_Witness ==
    \E p \in OrderedPairs :
        /\ Dot(RelVel(p[1], p[2]), RelVel(p[1], p[2])) # 0
        /\ -Dot(RelPos(p[1], p[2]), RelVel(p[1], p[2])) < 0
        /\ (Abs(Cross(RelPos(p[1], p[2]), RelVel(p[1], p[2]))) * 100)
               \div ISqrt(Dot(RelVel(p[1], p[2]), RelVel(p[1], p[2])) * 100) + 100
               < NormMilli(RelPos(p[1], p[2]))
        /\ Cpa(p[1], p[2]).dist_cpa = NormMilli(RelPos(p[1], p[2]))

\* vessels i and j are on the same course: headings equal modulo 360 degrees
SameCourse(i, j) == (ships[i].heading - ships[j].heading) % (360 * AngleScale) = 0

\* C18 as stated: for two vessels on parallel courses compute_cpa_and_tcpa
\* returns the time 0 and the present distance
C18_ParallelCourses ==
    \A p \in OrderedPairs :
        SameCourse(p[1], p[2]) =>
            /\ Cpa(p[1], p[2]).t_cpa = 0
            /\ Cpa(p[1], p[2]).dist_cpa = NormMilli(RelPos(p[1], p[2]))

\* C18, amended: for two vessels with the same velocity vector (the same
\* course and the same speed) compute_cpa_and_tcpa returns the time 0 and the
\* present distance
C18_SameVelocity ==
    \A p \in OrderedPairs :
        (SameCourse(p[1], p[2]) /\ ships[p[1]].speed = ships[p[2]].speed) =>
            /\ Cpa(p[1], p[2]).t_cpa = 0
            /\ Cpa(p[1], p[2]).dist_cpa = NormMilli(RelPos(p[1], p[2]))

\* two vessels with the same speed whose headings differ by full turns, one
\* not abeam of the other
C18_Witness ==
    \E p \in OrderedPairs :
        /\ SameCourse(p[1], p[2])
        /\ ships[p[1]].heading # ships[p[2]].heading
        /\ ships[p[1]].speed = ships[p[2]].speed
        /\ Dot(RelPos(p[1], p[2]), get_velocity_vector(ships[p[1]])) # 0
        /\ Cpa(p[1], p[2]).dist_cpa = NormMilli(RelPos(p[1], p[2]))
        /\ Cpa(p[1], p[2]).dist_cpa > 0

\* C19: constructing a vessel never raises an error, whatever its position
\* and destination are
C19_ConstructionNeverRaises == pc # "raised"

\* the turn budget left to the vessel of search c when the search started
Remaining(c) ==
    max_range(heading_search_range, c.stand_on) - c.pre[c.ship].heading_adjusted

\* the candidate offsets of search c, in multiples of heading_search_step
Candidates(c) == 1..arange_len(heading_search_step, Remaining(c) + ArangeEps)

\* no candidate offset of search c gives its vessel a strictly larger minimum
\* closest-approach distance than the heading it has
NoBetterHeading(c) ==
    \A m \in Candidates(c) :
        compute_min_cpa_over_others(c.pre, c.ship,
                                    c.pre[c.ship].heading - m * heading_search_step)
            <= MinCpa(c.pre, c.ship)

\* C20: a search whose vessel has no turn budget left, or for which no
\* candidate offset gives a strictly larger minimum closest-approach distance
\* than the current heading, reports failure and leaves every vessel as it was;
\* a pair all of whose searches failed leaves the fleet, the maneuver log and
\* the counters unchanged
C20_FailureChangesNothing ==
    /\ [](\A n \in 1..Len(resolved.calls) :
             (Remaining(resolved.calls[n]) <= 0 \/ NoBetterHeading(resolved.calls[n]))
                 => /\ ~resolved.calls[n].ok
                    /\ resolved.calls[n].post = resolved.calls[n].pre)
    /\ [][(pc = "pair" /\ \A n \in 1..Len(resolved'.calls) : ~resolved'.calls[n].ok)
             => UNCHANGED <<ships, collisions_avoided, counters>>]_vars

\* the pair processed last had a search that failed without budget and a
\* search that failed although it had candidate offsets
C20_Witness ==
    /\ \E n \in 1..Len(resolved.calls) :
           /\ Remaining(resolved.calls[n]) <= 0
           /\ ~resolved.calls[n].ok
    /\ \E n \in 1..Len(resolved.calls) :
           /\ Remaining(resolved.calls[n]) > 0
           /\ Candidates(resolved.calls[n]) # {}
           /\ NoBetterHeading(resolved.calls[n])
           /\ ~resolved.calls[n].ok

\* the offsets of a search with the full range, in multiples of
\* heading_search_step, and 0 for the heading the vessel has
ProbeOffsets == 0..arange_len(heading_search_step, heading_search_range + ArangeEps)

\* search c has changed nothing but the heading and the budget of its vessel,
\* both by the offset it has committed
OnlyCommitted(c) ==
    /\ \A o \in (1..Len(c.pre)) \ {c.ship} : c.post[o] = c.pre[o]
    /\ c.post[c.ship] =
           [c.pre[c.ship] EXCEPT
               !.heading = @ - (c.post[c.ship].heading_adjusted
                                   - c.pre[c.ship].heading_adjusted),
               !.heading_adjusted = c.post[c.ship].heading_adjusted]
    /\ ~c.ok => c.post = c.pre

\* C21: the evaluation of a hypothetical heading of any vessel leaves the
\* heading, the position and the budget of every vessel as they were, so the
\* fleet after a search differs from the fleet before it by the committed
\* offset only, and a search that commits nothing leaves the fleet as it was
C21_ProbeLeavesFleet ==
    /\ \A k \in 1..Len(ships) :
           \A m \in ProbeOffsets :
               after_probe(ships, k, ships[k].heading - m * heading_search_step) = ships
    /\ \A n \in 1..Len(resolved.calls) : OnlyCommitted(resolved.calls[n])

\* a search that evaluated candidate headings of one vessel and committed
\* none was followed by a successful search on the other vessel of the pair
C21_Witness ==
    /\ Len(resolved.calls) = 2
    /\ ~resolved.calls[1].ok
    /\ Candidates(resolved.calls[1]) # {}
    /\ resolved.calls[2].ok
    /\ resolved.calls[2].pre = resolved.calls[1].pre

\* the offset search c has committed, 0 if it has committed none
OffsetOf(c) == c.post[c.ship].heading_adjusted - c.pre[c.ship].heading_adjusted

\* the minimum closest-approach distance search c finds for the candidate
\* offset m * heading_search_step
ProbeCpa(c, m) ==
    compute_min_cpa_over_others(c.pre, c.ship,
                                c.pre[c.ship].heading - m * heading_search_step)

\* the candidates of search c whose minimum closest-approach distance reaches
\* safe_distance
SafeCandidates(c) == { m \in Candidates(c) : ProbeCpa(c, m) >= safe_distance }

\* C22 as stated: the scan stops at the first candidate offset whose minimum
\* closest-approach distance reaches safe_distance, so the committed offset
\* never exceeds that offset
C22_StopsWhenSafe ==
    \A n \in 1..Len(resolved.calls) :
        resolved.calls[n].ok =>
            \A m \in SafeCandidates(resolved.calls[n]) :
                OffsetOf(resolved.calls[n]) <= m * heading_search_step

\* the minimum closest-approach distance of the committed offset of search c
\* is not below that of any candidate offset
MaximalOverCandidates(c) ==
    Bind(MinCpa(c.post, c.ship),
         LAMBDA best_cpa : \A m \in Candidates(c) : ProbeCpa(c, m) <= best_cpa)

\* C22, amended: the scan evaluates every candidate offset up to the remaining
\* budget, also after one has reached safe_distance, and commits an offset
\* whose minimum closest-approach distance is the largest of all candidates
C22_ScansAllCandidates ==
    \A n \in 1..Len(resolved.calls) :
        resolved.calls[n].ok => MaximalOverCandidates(resolved.calls[n])

\* a search committed a larger offset than the first one that reaches
\* safe_distance
C22_Witness ==
    \E n \in 1..Len(resolved.calls) :
        /\ resolved.calls[n].ok
        /\ \E m \in SafeCandidates(resolved.calls[n]) :
               m * heading_search_step < OffsetOf(resolved.calls[n])

\* C23: a search with stand_on=True commits nothing when its vessel has
\* already turned min(heading_search_range, 10) degrees or more in this tick,
\* and after a successful one the vessel has turned at most
\* min(heading_search_range, 10) degrees in this tick
C23_StandOnCap ==
    \A n \in 1..Len(resolved.calls) :
        resolved.calls[n].stand_on =>
            /\ Remaining(resolved.calls[n]) <= 0 => ~resolved.calls[n].ok
            /\ resolved.calls[n].ok =>
                   resolved.calls[n].post[resolved.calls[n].ship].heading_adjusted
                       <= Min(heading_search_range, StandOnCap)

HeadingChanged == \E k \in 1..Len(ships) : ships'[k].heading # ships[k].heading

(***************************************************************************)
(* C24: within a tick the resolution loop stops at the first iteration in  *)
(* which detection returns no at-risk pair or in which no search on any    *)
(* pair succeeded; iteration k+1 is started only if iteration k committed  *)
(* at least one heading change.  improved_any is cleared when a pass       *)
(* starts, is raised by a pair exactly when the pair changes a heading,    *)
(* and decides at the end of the pass between the next iteration and the   *)
(* advance.                                                                *)
(***************************************************************************)
C24_LoopStops ==
    [][ /\ (pc = "iter" /\ iteration < max_iters) =>
              /\ (pc' = "advance") = (detect_collisions(ships, safe_distance) = <<>>)
              /\ pc' \in {"advance", "pair"}
              /\ (pc' = "pair" => ~improved_any')
              /\ iteration' = iteration
        /\ pc = "pair" =>
              /\ improved_any' = (improved_any \/ HeadingChanged)
              /\ pc' \in {"pair", "iterend"}
              /\ iteration' = iteration
        /\ pc = "iterend" =>
              IF improved_any THEN pc' = "iter" /\ iteration' = iteration + 1
              ELSE pc' = "advance"
        /\ pc' = "iter" => pc \in {"relax", "iterend"}
        /\ (pc = "relax" /\ pc' = "iter") => iteration' = 0 ]_vars

\* a later iteration of a tick ended the loop because none of its searches
\* succeeded
C24_Witness ==
    pc = "advance" /\ iteration >= 1 /\ collisions # <<>> /\ ~improved_any

FreshCpa == compute_cpa_and_tcpa(PreShips[resolved.i], PreShips[resolved.j])

(***************************************************************************)
(* C25: within one pass over the sorted at-risk pairs, a pair whose        *)
(* closest-approach distance, evaluated with the headings current when the *)
(* pair is reached (after the turns committed earlier in the same pass),   *)
(* already is at or above the risk band is skipped: no search is attempted *)
(* on either of its vessels.  Every pair on which searches were run was    *)
(* therefore inside the risk band with the headings it was reached with.   *)
(***************************************************************************)
C25_StalePairSkipped ==
    resolved.i # 0 => FreshCpa.dist_cpa < RiskFactor * safe_distance

TickHadRisk == resolved.i # 0

(***************************************************************************)
(* C26: after every step(), no_collision_count equals the number of most   *)
(* recent consecutive ticks, this one included, in which zero pairs were   *)
(* at risk: a tick with no at-risk pair increases it by exactly 1 and a    *)
(* tick with at least one at-risk pair sets it to 0.  When step() has      *)
(* returned, a tick in which the searches of an at-risk pair were run has  *)
(* left the count at 0, and a tick without one has left it positive.       *)
(***************************************************************************)
C26_CountsConflictFreeTicks ==
    (pc = "idle" /\ current_time > 0) =>
        IF TickHadRisk THEN no_collision_count = 0 ELSE no_collision_count >= 1

\* the difference to the destination heading, as the representative in
\* (-180, 180] of its class modulo 360 degrees
RelaxDiff(s) ==
    LET m == (compute_heading_to_destination(s) - s.heading) % (360 * AngleScale)
    IN  IF m > 180 * AngleScale THEN m - 360 * AngleScale ELSE m

ClampTurn(d) ==
    IF d > heading_search_range THEN heading_search_range
    ELSE IF d < -heading_search_range THEN -heading_search_range
    ELSE d

Relaxable(s) ==
    /\ no_collision_count > RelaxAfter
    /\ distance_to_destination_sq(s) > destination_threshold * destination_threshold

SameDirection(h1, h2) == (h1 - h2) % (360 * AngleScale) = 0

\* the effect of step 3 on one vessel, with the relation that is claimed between
\* the new heading and the destination heading as a parameter
RelaxedAs(s, t, OnCourse(_, _)) ==
    IF Relaxable(s)
    THEN Bind(RelaxDiff(s),
              LAMBDA d :
                  /\ t = [s EXCEPT !.heading = s.heading + ClampTurn(d)]
                  /\ Abs(t.heading - s.heading) <= heading_search_range
                  /\ (Abs(d) <= heading_search_range =>
                         OnCourse(t.heading, compute_heading_to_destination(s))))
    ELSE t = s

(***************************************************************************)
(* C27: relaxation is applied in a tick exactly when the conflict-free     *)
(* count exceeds the threshold (10), and only to vessels farther than      *)
(* destination_threshold from their destination; it turns the heading      *)
(* toward heading_to_destination by the difference normalized to           *)
(* (-180, 180] and clamped to +-heading_search_range, so a vessel's        *)
(* heading changes by at most heading_search_range through relaxation in   *)
(* one tick and equals heading_to_destination afterwards when the          *)
(* difference was within the range.                                        *)
(***************************************************************************)
C27_RelaxedOntoCourse ==
    [][ pc = "relax" =>
          \A k \in 1..Len(ships) :
              RelaxedAs(ships[k], ships'[k], LAMBDA h, d : h = d) ]_vars

\* C27, amended: relaxation as above, and when the difference was within the
\* range the new heading equals heading_to_destination modulo 360 degrees
C27_RelaxedToSameDirection ==
    [][ pc = "relax" =>
          \A k \in 1..Len(ships) : RelaxedAs(ships[k], ships'[k], SameDirection) ]_vars

\* relaxation has left a vessel on the direction of its destination with a
\* heading that differs from heading_to_destination by a whole turn
C27_Witness ==
    /\ pc = "iter" /\ iteration = 0 /\ no_collision_count > RelaxAfter
    /\ \E k \in 1..Len(ships) :
           /\ distance_to_destination_sq(ships[k]) > destination_threshold * destination_threshold
           /\ ships[k].heading # compute_heading_to_destination(ships[k])
           /\ SameDirection(ships[k].heading, compute_heading_to_destination(ships[k]))

\* the committed offset of search c is the smallest of the scanned offsets with
\* the largest minimum closest-approach distance
SmallestBest(c) ==
    \E b \in Candidates(c) :
        /\ OffsetOf(c) = b * heading_search_step
        /\ Bind(ProbeCpa(c, b),
                LAMBDA best_cpa :
                    \A m \in Candidates(c) :
                        Bind(ProbeCpa(c, m),
                             LAMBDA cpa : cpa <= best_cpa /\ (cpa = best_cpa => b <= m)))

StarboardBy(c, offset) ==
    /\ offset > 0
    /\ c.post[c.ship].heading = c.pre[c.ship].heading - offset

(***************************************************************************)
(* C28: a successful apply_multi_ship_starboard commits a starboard turn   *)
(* only: the new heading is base_heading - offset where offset is a        *)
(* positive multiple of the search step not exceeding the remaining        *)
(* budget, and among all scanned offsets that attain the maximum of the    *)
(* minimum closest-approach distance it is the smallest one.               *)
(***************************************************************************)
C28_CommitsSmallestBest ==
    \A n \in 1..Len(resolved.calls) :
        resolved.calls[n].ok =>
            /\ StarboardBy(resolved.calls[n], OffsetOf(resolved.calls[n]))
            /\ OffsetOf(resolved.calls[n]) <= Remaining(resolved.calls[n])
            /\ SmallestBest(resolved.calls[n])

\* the number of messages of collisions_avoided for encounters of category e
Logged(e) ==
    Cardinality({ n \in 1..Len(collisions_avoided) : collisions_avoided[n].encounter = e })

\* the number of successful searches of the pair the loop body is about to
\* process, as recorded for it in the next state
SuccessfulCalls ==
    IF skip_pair(collisions[idx], safe_distance) THEN 0
    ELSE Cardinality({ n \in 1..Len(resolved'.calls) : resolved'.calls[n].ok })

\* the counter of category e in the triple cs of the three counters
CounterOf(cs, e) ==
    IF e = "head-on" THEN cs[1]
    ELSE IF e = "crossing" THEN cs[2]
    ELSE cs[3]

\* the successful searches of one pair add their number to the log and to the
\* counter of the category of the pair, and to no other counter
CountedOnce ==
    Bind(SuccessfulCalls,
         LAMBDA wins :
             /\ Len(collisions_avoided') = Len(collisions_avoided) + wins
             /\ count_headon' + count_crossing' + count_overtaking'
                    = count_headon + count_crossing + count_overtaking + wins
             /\ wins > 0 =>
                    /\ resolved'.encounter \in {"head-on", "crossing", "overtaking"}
                    /\ CounterOf(counters', resolved'.encounter)
                           = CounterOf(counters, resolved'.encounter) + wins
                    /\ \A n \in 1..wins :
                           collisions_avoided'[Len(collisions_avoided) + n].encounter
                               = classify_encounter(ships[collisions[idx].i],
                                                    ships[collisions[idx].j]))

(***************************************************************************)
(* C29: in every reachable state of a Simulator, the number of messages in *)
(* collisions_avoided equals count_headon + count_crossing +               *)
(* count_overtaking, and both equal the total number of successful         *)
(* apply_multi_ship_starboard calls made since construction; each          *)
(* successful call increments the counter of the encounter category under  *)
(* which its pair was classified exactly once.                             *)
(***************************************************************************)
C29_CountersMatchLog ==
    /\ [](/\ Len(collisions_avoided) = count_headon + count_crossing + count_overtaking
          /\ count_headon = Logged("head-on")
          /\ count_crossing = Logged("crossing")
          /\ count_overtaking = Logged("overtaking"))
    /\ [][ IF pc = "pair" THEN CountedOnce
           ELSE UNCHANGED <<collisions_avoided, counters>> ]_vars

\* two successful head-on searches and a successful search of another category
\* have been counted, the last success being the second search of its pair
C29_Witness ==
    /\ count_headon >= 2
    /\ count_crossing + count_overtaking >= 1
    /\ Len(resolved.calls) = 2 /\ resolved.calls[2].ok

\* vessel k is where it was
Stays(k) == ships'[k].x = ships[k].x /\ ships'[k].y = ships[k].y

\* C30: arrival is stable: once a vessel's distance_to_destination is below
\* destination_threshold its position is never changed by any later step(), so
\* once all_ships_arrived() returns true it returns true after every later
\* sequence of step() calls
C30_ArrivalStable ==
    [][ /\ \A k \in 1..Len(ships) : Arrived(ships[k]) => Stays(k) /\ Arrived(ships'[k])
        /\ all_ships_arrived => all_ships_arrived' ]_vars

\* every vessel has arrived and step() has been called again, once or more,
\* after the tick that recorded the last arrival
C30_Witness ==
    /\ pc = "idle"
    /\ all_ships_arrived
    /\ \A k \in 1..Len(ships) :
           /\ ships[k].arrival_time # NoTime
           /\ ships[k].arrival_time + time_step < current_time

====
